---- MODULE Spec2Model ----
(***************************************************************************)
(* Model of crate where_is (src/lib.rs): a Finder pairs a walkdir walker   *)
(* with a target string; its iterator, IteratorFilter, pulls results from  *)
(* the walker and yields the entries whose file name equals the target.    *)
(*                                                                         *)
(* Paths are byte sequences ("xFF" is a byte that is not valid UTF-8),     *)
(* text is a sequence of characters ("uFFFD" is U+FFFD, the replacement    *)
(* character that a lossy conversion writes for an invalid byte).          *)
(***************************************************************************)
EXTENDS Naturals, Sequences, FiniteSets

\* ------------------------------------------------------------------ bounds

\* Longest result sequence the walker produces.
MaxWalk == 3

\* Most calls of next made on one iterator.
MaxCalls == 4

\* The Finder instances a program builds (two, to compare independent runs).
Instances == {1, 2}

\* ------------------------------------------------------- paths and strings

Sep == "/"

\* Roots handed to Finder::new.
Roots == { <<"a">>, <<"a", "/">>, <<"/">>, <<".", ".">> }

\* File names the filesystem holds under a directory (never "." or "..",
\* never holding a separator).
Names == { <<"a">>, <<"b">>, <<"xFF">> }

\* Targets handed to Finder::new (text).
Targets == { <<"a">>, <<"uFFFD">>, <<"a", "/", "a">>, <<"c">> }

NoneName == [some |-> FALSE, val |-> <<>>]
SomeName(n) == [some |-> TRUE, val |-> n]

\* The components of a path as std::path::Path::components sees them from
\* the back: separators split, empty components and "." components dropped.
RECURSIVE SplitFrom(_, _, _, _)
SplitFrom(path, i, cur, acc) ==
    LET keep(c) == c # <<>> /\ c # <<".">>
    IN  IF i > Len(path)
        THEN IF keep(cur) THEN Append(acc, cur) ELSE acc
        ELSE IF path[i] = Sep
             THEN SplitFrom(path, i + 1, <<>>,
                            IF keep(cur) THEN Append(acc, cur) ELSE acc)
             ELSE SplitFrom(path, i + 1, Append(cur, path[i]), acc)

Components(path) == SplitFrom(path, 1, <<>>, <<>>)

\* Path::file_name: the last component when it is a normal one; none for a
\* path that ends in "..", for the root directory and for the empty path.
FileName(path) ==
    LET cs == Components(path)
    IN  IF cs = <<>> THEN NoneName
        ELSE IF cs[Len(cs)] = <<".", ".">> THEN NoneName
        ELSE SomeName(cs[Len(cs)])

\* OsStr::to_string_lossy: every byte that is not valid UTF-8 becomes U+FFFD.
ToStringLossy(name) ==
    [k \in 1..Len(name) |-> IF name[k] = "xFF" THEN "uFFFD" ELSE name[k]]

\* Path::join of a directory and a file name, as walkdir builds the path of
\* a child entry.
Join(dir, name) ==
    IF dir # <<>> /\ dir[Len(dir)] = Sep THEN dir \o name
    ELSE dir \o <<Sep>> \o name

\* ----------------------------------------------------------- walker results

\* walkdir::Result<DirEntry>
Err == [ok |-> FALSE, path |-> <<>>]
Ok(p) == [ok |-> TRUE, path |-> p]

\* Option<DirEntry>
None == [some |-> FALSE, path |-> <<>>]
Some(e) == [some |-> TRUE, path |-> e.path]

IsPrefix(p, q) == Len(p) <= Len(q) /\ SubSeq(q, 1, Len(p)) = p

OkPaths(s) == { s[k].path : k \in { j \in 1..Len(s) : s[j].ok } }

LastOk(s) ==
    LET ks == { j \in 1..Len(s) : s[j].ok }
    IN  s[CHOOSE k \in ks : \A j \in ks : j <= k].path

\* One more result of a depth-first walk: an error, or a child of a
\* directory still on the walker's stack (the last entry or an ancestor of
\* it) that was not visited before.
Extend(s) ==
    IF OkPaths(s) = {} THEN {}
    ELSE LET stack == { q \in OkPaths(s) : IsPrefix(q, LastOk(s)) }
             fresh == { Join(d, n) : d \in stack, n \in Names } \ OkPaths(s)
         IN  { Append(s, Err) } \cup { Append(s, Ok(p)) : p \in fresh }

RECURSIVE WalksUpTo(_, _)
WalksUpTo(r, n) ==
    IF n = 1 THEN { <<Ok(r)>>, <<Err>> }
    ELSE LET prev == WalksUpTo(r, n - 1)
         IN  prev \cup UNION { Extend(s) : s \in { t \in prev : Len(t) = n - 1 } }

\* The result sequences walkdir can produce for root r: the root first (or
\* one error when the root cannot be read), then its descendants.
WalkerSeqs(r) == WalksUpTo(r, MaxWalk)

\* -------------------------------------------------------------------- state

VARIABLES
    root,       \* the root path the program passes to Finder::new
    target,     \* the target text the program passes to Finder::new
    results,    \* what the walker produces for root, in order
    finder,     \* finder[i]: the Finder struct of instance i
    iter,       \* iter[i]: the IteratorFilter of instance i
    calls       \* calls[i]: the calls of next made on iter[i], in order

vars == <<root, target, results, finder, iter, calls>>

NoFinder == [state |-> "none", walker |-> <<>>, target |-> <<>>]
MovedFinder == [state |-> "moved", walker |-> <<>>, target |-> <<>>]
NoIter == [state |-> "none", it |-> 0, target |-> <<>>]

Init ==
    /\ root \in Roots
    /\ target \in Targets
    /\ results \in WalkerSeqs(root)
    /\ finder = [i \in Instances |-> NoFinder]
    /\ iter = [i \in Instances |-> NoIter]
    /\ calls = [i \in Instances |-> <<>>]

\* ------------------------------------------------------------------ Finder

\* Finder::new: a WalkDir configured at the root, and an owned copy of the
\* target.
FinderNew(r, t) == [state |-> "live", walker |-> r, target |-> t]

New(i) ==
    /\ finder[i].state = "none"
    /\ finder' = [finder EXCEPT ![i] = FinderNew(root, target)]
    /\ UNCHANGED <<root, target, results, iter, calls>>

\* Predicate, had it compared the entry's whole path with the target.
PredicateFullPath(entry, tgt) == ToStringLossy(entry.path) = tgt

\* Predicate, had it accepted an entry whose path has no file name.
PredicateNoneMatches(entry, tgt) ==
    LET name == FileName(entry.path)
    IN  IF name.some THEN ToStringLossy(name.val) = tgt ELSE TRUE

\* The predicate closure of into_iter, with the target it captured.
Predicate(entry, tgt) ==
    LET name == FileName(entry.path)
    IN  IF name.some THEN ToStringLossy(name.val) = tgt ELSE FALSE

\* into_iter, had it started the walker below the root (min_depth 1).
FinderIntoIterSkipRoot(f) == [state |-> "live", it |-> 1, target |-> f.target]

\* into_iter, had it taken over the walker position another instance's
\* iterator has reached instead of a walker of its own.
FinderIntoIterShared(f) ==
    LET live == { j \in Instances : iter[j].state = "live" }
    IN  [state |-> "live",
         it |-> IF live = {} THEN 0 ELSE iter[CHOOSE j \in live : TRUE].it,
         target |-> f.target]

\* Finder::into_iter: the walker's iterator, positioned before its first
\* result, and the predicate closure that owns the target.
FinderIntoIter(f) == [state |-> "live", it |-> 0, target |-> f.target]

IntoIter(i) ==
    /\ finder[i].state = "live"
    /\ iter' = [iter EXCEPT ![i] = FinderIntoIter(finder[i])]
    /\ finder' = [finder EXCEPT ![i] = MovedFinder]
    /\ UNCHANGED <<root, target, results, calls>>

\* ---------------------------------------------------------- IteratorFilter

\* self.it.next() on the walker at position p: none when the walker is
\* exhausted (the position stays), else the result after p.
WalkerNext(ws, p) ==
    IF p >= Len(ws) THEN [some |-> FALSE, res |-> Err, pos |-> p]
    ELSE [some |-> TRUE, res |-> ws[p + 1], pos |-> p + 1]

\* next, had it returned none at the first entry the predicate rejects.
IteratorFilterNextStopAtMismatch(ws, p, tgt) ==
    LET r == WalkerNext(ws, p)
    IN  IF ~r.some
        THEN [ret |-> None, pos |-> r.pos, err |-> FALSE, done |-> TRUE]
        ELSE IF ~r.res.ok
        THEN [ret |-> None, pos |-> r.pos, err |-> TRUE, done |-> FALSE]
        ELSE IF ~Predicate(r.res, tgt)
        THEN [ret |-> None, pos |-> r.pos, err |-> FALSE, done |-> FALSE]
        ELSE [ret |-> Some(r.res), pos |-> r.pos, err |-> FALSE, done |-> FALSE]

\* next, had it skipped error results like non-matching entries.
RECURSIVE IteratorFilterNextSkipErr(_, _, _)
IteratorFilterNextSkipErr(ws, p, tgt) ==
    LET r == WalkerNext(ws, p)
    IN  IF ~r.some
        THEN [ret |-> None, pos |-> r.pos, err |-> FALSE, done |-> TRUE]
        ELSE IF ~r.res.ok
        THEN IteratorFilterNextSkipErr(ws, r.pos, tgt)
        ELSE IF ~Predicate(r.res, tgt)
        THEN IteratorFilterNextSkipErr(ws, r.pos, tgt)
        ELSE [ret |-> Some(r.res), pos |-> r.pos, err |-> FALSE, done |-> FALSE]

\* next, had it handed out the last pulled entry again when the walker is
\* exhausted.
RECURSIVE IteratorFilterNextReyield(_, _, _)
IteratorFilterNextReyield(ws, p, tgt) ==
    LET r == WalkerNext(ws, p)
    IN  IF ~r.some
        THEN IF p >= 1 /\ ws[p].ok /\ Predicate(ws[p], tgt)
             THEN [ret |-> Some(ws[p]), pos |-> r.pos, err |-> FALSE, done |-> TRUE]
             ELSE [ret |-> None, pos |-> r.pos, err |-> FALSE, done |-> TRUE]
        ELSE IF ~r.res.ok
        THEN [ret |-> None, pos |-> r.pos, err |-> TRUE, done |-> FALSE]
        ELSE IF ~Predicate(r.res, tgt)
        THEN IteratorFilterNextReyield(ws, r.pos, tgt)
        ELSE [ret |-> Some(r.res), pos |-> r.pos, err |-> FALSE, done |-> FALSE]

\* next, had it pulled one walker result beyond the match it returns.
RECURSIVE IteratorFilterNextPeek(_, _, _)
IteratorFilterNextPeek(ws, p, tgt) ==
    LET r == WalkerNext(ws, p)
    IN  IF ~r.some
        THEN [ret |-> None, pos |-> r.pos, err |-> FALSE, done |-> TRUE]
        ELSE IF ~r.res.ok
        THEN [ret |-> None, pos |-> r.pos, err |-> TRUE, done |-> FALSE]
        ELSE IF ~Predicate(r.res, tgt)
        THEN IteratorFilterNextPeek(ws, r.pos, tgt)
        ELSE [ret |-> Some(r.res), pos |-> WalkerNext(ws, r.pos).pos,
              err |-> FALSE, done |-> FALSE]

\* next, had it ended the sequence at an entry whose path has no file name.
RECURSIVE IteratorFilterNextNamelessEnds(_, _, _)
IteratorFilterNextNamelessEnds(ws, p, tgt) ==
    LET r == WalkerNext(ws, p)
    IN  IF ~r.some
        THEN [ret |-> None, pos |-> r.pos, err |-> FALSE, done |-> TRUE]
        ELSE IF ~r.res.ok
        THEN [ret |-> None, pos |-> r.pos, err |-> TRUE, done |-> FALSE]
        ELSE IF ~FileName(r.res.path).some
        THEN [ret |-> None, pos |-> r.pos, err |-> FALSE, done |-> FALSE]
        ELSE IF ~Predicate(r.res, tgt)
        THEN IteratorFilterNextNamelessEnds(ws, r.pos, tgt)
        ELSE [ret |-> Some(r.res), pos |-> r.pos, err |-> FALSE, done |-> FALSE]

\* next, had it looked at a matching result without taking it from the
\* walker.
RECURSIVE IteratorFilterNextNoAdvance(_, _, _)
IteratorFilterNextNoAdvance(ws, p, tgt) ==
    LET r == WalkerNext(ws, p)
    IN  IF ~r.some
        THEN [ret |-> None, pos |-> r.pos, err |-> FALSE, done |-> TRUE]
        ELSE IF ~r.res.ok
        THEN [ret |-> None, pos |-> r.pos, err |-> TRUE, done |-> FALSE]
        ELSE IF ~Predicate(r.res, tgt)
        THEN IteratorFilterNextNoAdvance(ws, r.pos, tgt)
        ELSE [ret |-> Some(r.res), pos |-> p, err |-> FALSE, done |-> FALSE]

\* IteratorFilter::next, the whole loop: what the call returns, where it
\* leaves the walker, and whether it ended on an error or on exhaustion.
RECURSIVE IteratorFilterNext(_, _, _)
IteratorFilterNext(ws, p, tgt) ==
    LET r == WalkerNext(ws, p)
    IN  IF ~r.some
        THEN [ret |-> None, pos |-> r.pos, err |-> FALSE, done |-> TRUE]
        ELSE IF ~r.res.ok
        THEN [ret |-> None, pos |-> r.pos, err |-> TRUE, done |-> FALSE]
        ELSE IF ~Predicate(r.res, tgt)
        THEN IteratorFilterNext(ws, r.pos, tgt)
        ELSE [ret |-> Some(r.res), pos |-> r.pos, err |-> FALSE, done |-> FALSE]

\* next, had the predicate closure taken the target out of its capture
\* (leaving it empty) when it accepts an entry.
CallNextTakesTarget(i) ==
    /\ iter[i].state = "live"
    /\ Len(calls[i]) < MaxCalls
    /\ LET c == IteratorFilterNext(results, iter[i].it, iter[i].target)
       IN  /\ iter' = [iter EXCEPT ![i].it = c.pos,
                                    ![i].target = IF c.ret.some THEN <<>> ELSE @]
           /\ calls' = [calls EXCEPT ![i] =
                  Append(@, [ret |-> c.ret, from |-> iter[i].it, to |-> c.pos,
                             err |-> c.err, done |-> c.done])]
    /\ UNCHANGED <<root, target, results, finder>>

CallNext(i) ==
    /\ iter[i].state = "live"
    /\ Len(calls[i]) < MaxCalls
    /\ LET c == IteratorFilterNext(results, iter[i].it, iter[i].target)
       IN  /\ iter' = [iter EXCEPT ![i].it = c.pos]
           /\ calls' = [calls EXCEPT ![i] =
                  Append(@, [ret |-> c.ret, from |-> iter[i].it, to |-> c.pos,
                             err |-> c.err, done |-> c.done])]
    /\ UNCHANGED <<root, target, results, finder>>

Next ==
    \/ \E i \in Instances : New(i)
    \/ \E i \in Instances : IntoIter(i)
    \/ \E i \in Instances : CallNext(i)

Spec == Init /\ [][Next]_vars

\* ------------------------------------------------------------ shorthands

\* Entry e has base name t: its path has a final component whose lossy text
\* is t.
HasBaseName(e, t) ==
    /\ FileName(e.path).some
    /\ ToStringLossy(FileName(e.path).val) = t

\* The walker results that are entries with base name t, in walker order.
Matching(ws, t) == SelectSeq(ws, LAMBDA r : r.ok /\ HasBaseName(r, t))

\* The index of the first call of instance i that returned none (0: none did).
FirstNone(i) ==
    LET ks == { k \in 1..Len(calls[i]) : ~calls[i][k].ret.some }
    IN  IF ks = {} THEN 0 ELSE CHOOSE k \in ks : \A j \in ks : k <= j

NoWalkError == \A k \in 1..Len(results) : results[k].ok

\* --------------------------------------------------------------------- C1
\* C1: every entry a call of next returns has a base name, and that base
\* name (lossily converted) equals the target; nothing else is yielded.
C1_Soundness ==
    \A i \in Instances : \A k \in 1..Len(calls[i]) :
        calls[i][k].ret.some => HasBaseName(calls[i][k].ret, target)

\* A call skipped a non-matching entry and then yielded a match.
C1_Witness ==
    \E i \in Instances : \E k \in 1..Len(calls[i]) :
        /\ calls[i][k].ret.some
        /\ calls[i][k].to > calls[i][k].from + 1

\* --------------------------------------------------------------------- C2
\* C2: with no traversal error, the entries yielded before the first none
\* are exactly the walker entries with base name target, in walker order,
\* each once, and no entry is yielded after one of its descendants.
C2_CompleteInOrder ==
    \A i \in Instances :
        (NoWalkError /\ FirstNone(i) > 0) =>
            LET m == Matching(results, target)
            IN  /\ FirstNone(i) - 1 = Len(m)
                /\ \A k \in 1..Len(m) : calls[i][k].ret = Some(m[k])
                /\ \A j, k \in 1..Len(m) :
                      j < k => ~IsPrefix(calls[i][k].ret.path, calls[i][j].ret.path)

\* The tree a/b/a walked for target "a": a, then a/b/a, then none.
C2_Witness ==
    \E i \in Instances :
        /\ results = << Ok(<<"a">>), Ok(<<"a", "/", "b">>),
                        Ok(<<"a", "/", "b", "/", "a">>) >>
        /\ target = <<"a">>
        /\ Len(calls[i]) = 3
        /\ calls[i][1].ret = Some(Ok(<<"a">>))
        /\ calls[i][2].ret = Some(Ok(<<"a", "/", "b", "/", "a">>))
        /\ calls[i][3].ret = None

\* --------------------------------------------------------------------- C3
\* C3: once a call of next has pulled a traversal error, that call and
\* every later call on the same iterator return none.
C3_ErrorTerminatesForGood ==
    \A i \in Instances : \A k \in 1..Len(calls[i]) :
        calls[i][k].err =>
            \A j \in k..Len(calls[i]) : ~calls[i][j].ret.some

\* --------------------------------------------------------------------- C4
\* C4: a call of next that pulls an error result returns none on that same
\* call and pulls nothing after the error.
C4_ErrorSwallowed ==
    \A i \in Instances : \A k \in 1..Len(calls[i]) :
        LET c == calls[i][k]
        IN  \A e \in (c.from + 1)..c.to :
                ~results[e].ok => (~c.ret.some /\ c.to = e)

\* A call ended on an error although a matching entry follows the error.
C4_Witness ==
    \E i \in Instances : \E k \in 1..Len(calls[i]) :
        /\ calls[i][k].err
        /\ \E e \in (calls[i][k].to + 1)..Len(results) :
              results[e].ok /\ HasBaseName(results[e], target)

\* --------------------------------------------------------------------- C5
\* C5: when no walker entry has base name target, every call of next
\* returns none, with or without traversal errors.
C5_NoMatchEmpty ==
    (\A e \in 1..Len(results) :
        results[e].ok => ~HasBaseName(results[e], target)) =>
    \A i \in Instances : \A k \in 1..Len(calls[i]) : ~calls[i][k].ret.some

\* Nothing matches, the walk holds an error and entries, and next was
\* called past the end of it.
C5_Witness ==
    /\ \A e \in 1..Len(results) :
          results[e].ok => ~HasBaseName(results[e], target)
    /\ \E e \in 1..Len(results) : ~results[e].ok
    /\ Len(results) = MaxWalk
    /\ \E i \in Instances : Len(calls[i]) >= 2 /\ iter[i].it = Len(results)

\* --------------------------------------------------------------------- C6
\* C6: when the root's own base name is the target and the walker's first
\* result is the root, the first call of next returns the root entry.
C6_SelfMatchingRoot ==
    (HasBaseName(Ok(root), target) /\ results[1] = Ok(root)) =>
    \A i \in Instances :
        calls[i] # <<>> => calls[i][1].ret = Some(Ok(root))

\* The root matched, a descendant matches too, and the root came first.
C6_Witness ==
    /\ HasBaseName(Ok(root), target)
    /\ results[1] = Ok(root)
    /\ \E e \in 2..Len(results) : results[e].ok /\ HasBaseName(results[e], target)
    /\ \E i \in Instances : calls[i] # <<>> /\ calls[i][1].ret = Some(Ok(root))

\* --------------------------------------------------------------------- C7
\* C7: a call of next that finds the walker exhausted returns none, and so
\* does every later call; the call after the last matching entry was
\* yielded returns none.
C7_ExhaustionTerminal ==
    \A i \in Instances : \A k \in 1..Len(calls[i]) :
        LET c == calls[i][k]
        IN  /\ c.done => \A j \in k..Len(calls[i]) : ~calls[i][j].ret.some
            /\ ( /\ c.ret.some
                 /\ k < Len(calls[i])
                 /\ \A e \in (c.to + 1)..Len(results) :
                       results[e].ok => ~HasBaseName(results[e], target) )
               => ~calls[i][k + 1].ret.some

\* The last match was yielded, the next call found the walker exhausted, and
\* a further call was made.
C7_Witness ==
    \E i \in Instances : \E k \in 1..Len(calls[i]) :
        /\ calls[i][k].ret.some
        /\ k + 2 <= Len(calls[i])
        /\ calls[i][k + 1].done
        /\ ~calls[i][k + 2].ret.some

\* --------------------------------------------------------------------- C8
\* C8: two Finder instances built with the same root and target, over the
\* same walker results, return the same result call by call.
C8_Deterministic ==
    (iter[1].state = "live" /\ iter[2].state = "live"
        /\ iter[1].target = iter[2].target) =>
    \A k \in 1..Len(calls[1]) :
        k <= Len(calls[2]) => calls[1][k].ret = calls[2][k].ret

\* Both instances were pulled until the walker was exhausted, and both
\* yielded something on the way.
C8_Witness ==
    /\ Len(calls[1]) >= 2 /\ Len(calls[2]) >= 2
    /\ calls[1][1].ret.some /\ calls[2][1].ret.some
    /\ calls[1][Len(calls[1])].done /\ calls[2][Len(calls[2])].done

\* --------------------------------------------------------------------- C9
\* C9: new and into_iter consume no walker result; a call that yields a
\* match consumes the results up to and including that match and no more;
\* each call starts where the one before it stopped.
C9_LazyExactResume ==
    \A i \in Instances :
        /\ calls[i] = <<>> => iter[i].it = 0
        /\ calls[i] # <<>> =>
              /\ calls[i][1].from = 0
              /\ iter[i].it = calls[i][Len(calls[i])].to
        /\ \A k \in 1..Len(calls[i]) :
              LET c == calls[i][k]
              IN  /\ k > 1 => c.from = calls[i][k - 1].to
                  /\ c.ret.some =>
                        /\ c.to > c.from
                        /\ results[c.to] = Ok(c.ret.path)
                        /\ \A e \in (c.from + 1)..(c.to - 1) :
                              results[e].ok /\ ~HasBaseName(results[e], target)

\* Two matches yielded by consecutive calls, the second after a skipped
\* entry, with a result left unpulled.
C9_Witness ==
    \E i \in Instances : \E k \in 2..Len(calls[i]) :
        /\ calls[i][k - 1].ret.some
        /\ calls[i][k].ret.some
        /\ calls[i][k].to = calls[i][k].from + 2

\* -------------------------------------------------------------------- C10
\* C10: after a call of next has pulled a traversal error, no later call
\* moves the walker: its position stays where the error was pulled.
C10_NoPullAfterError ==
    \A i \in Instances : \A k \in 1..Len(calls[i]) :
        calls[i][k].err =>
            \A j \in (k + 1)..Len(calls[i]) : calls[i][j].to = calls[i][k].to

\* -------------------------------------------------------------------- C11
\* The first walker result after position e that ends a call of next: an
\* error or an entry with base name t (0 when there is none).
NextStop(e, t) ==
    LET fs == { f \in (e + 1)..Len(results) :
                  ~results[f].ok \/ HasBaseName(results[f], t) }
    IN  IF fs = {} THEN 0 ELSE CHOOSE f \in fs : \A g \in fs : f <= g

\* C11: a call of next that pulls a valid entry without a base name skips
\* it and keeps pulling: the call ends at the next matching entry (which it
\* yields) or error, or else at the end of the walk; never at that entry.
C11_NamelessSkipped ==
    \A i \in Instances : \A k \in 1..Len(calls[i]) :
        LET c == calls[i][k]
        IN  \A e \in (c.from + 1)..c.to :
                (results[e].ok /\ ~FileName(results[e].path).some) =>
                    LET f == NextStop(e, target)
                    IN  IF f = 0
                        THEN c.to = Len(results) /\ c.done /\ ~c.ret.some
                        ELSE /\ c.to = f
                             /\ results[f].ok => c.ret = Some(results[f])
                             /\ ~results[f].ok => ~c.ret.some

\* A call pulled a root without a base name and went on to yield a match
\* below it.
C11_Witness ==
    \E i \in Instances : \E k \in 1..Len(calls[i]) :
        /\ results[1].ok /\ ~FileName(results[1].path).some
        /\ calls[i][k].from = 0
        /\ calls[i][k].ret.some

\* -------------------------------------------------------------------- C12
\* Walker result e is an entry that instance i has pulled.
Pulled(i, e) == e \in 1..iter[i].it /\ results[e].ok

\* Walker result e was returned by a call of next of instance i.
Yielded(i, e) ==
    \E k \in 1..Len(calls[i]) : calls[i][k].ret.some /\ calls[i][k].to = e

\* C12: whether a pulled entry is yielded depends on its base name alone:
\* two pulled entries with the same base name are both yielded or both
\* skipped; an entry whose whole path is the target while its base name is
\* not is skipped; a target holding a separator yields nothing.
C12_BaseNameOnly ==
    \A i \in Instances :
        /\ \A e, f \in 1..Len(results) :
              ( /\ Pulled(i, e) /\ Pulled(i, f)
                /\ FileName(results[e].path) = FileName(results[f].path) )
              => (Yielded(i, e) <=> Yielded(i, f))
        /\ \A e \in 1..Len(results) :
              ( /\ Pulled(i, e)
                /\ ToStringLossy(results[e].path) = target
                /\ ~HasBaseName(results[e], target) )
              => ~Yielded(i, e)
        /\ (\E c \in 1..Len(target) : target[c] = Sep) =>
              \A k \in 1..Len(calls[i]) : ~calls[i][k].ret.some

\* Target "a/a": the entries a and a/a share the base name "a" at different
\* depths, a/a is the target as a whole path, both were pulled and skipped.
C12_Witness ==
    \E i \in Instances :
        /\ target = <<"a", "/", "a">>
        /\ results[1] = Ok(<<"a">>)
        /\ Len(results) >= 2 /\ results[2] = Ok(<<"a", "/", "a">>)
        /\ iter[i].it >= 2
        /\ ~Yielded(i, 1) /\ ~Yielded(i, 2)

\* Target "a": the entries a and a/b/a share the base name "a" under
\* different parents and both were yielded, a/b between them was not.
C12_WitnessYielded ==
    \E i \in Instances :
        /\ target = <<"a">>
        /\ results = << Ok(<<"a">>), Ok(<<"a", "/", "b">>),
                        Ok(<<"a", "/", "b", "/", "a">>) >>
        /\ Yielded(i, 1) /\ ~Yielded(i, 2) /\ Yielded(i, 3)

\* -------------------------------------------------------------------- C13
\* C13: in every state, the target a live Finder holds and the target the
\* predicate of a live iterator compares against are the target that was
\* passed to Finder::new.
C13_TargetFixed ==
    \A i \in Instances :
        /\ finder[i].state = "live" => finder[i].target = target
        /\ iter[i].state = "live" => iter[i].target = target

\* One iterator has yielded an entry, skipped one, pulled an error and
\* found the walker exhausted.
C13_Witness ==
    \E i \in Instances :
        /\ iter[i].state = "live"
        /\ \E k \in 1..Len(calls[i]) : calls[i][k].ret.some
        /\ \E k \in 1..Len(calls[i]) : calls[i][k].err
        /\ \E k \in 1..Len(calls[i]) :
              calls[i][k].done /\ calls[i][k].to > calls[i][k].from

\* -------------------------------------------------------------------- C14
\* The walker results the first n calls of instance i consumed, in total.
RECURSIVE Consumed(_, _)
Consumed(i, n) ==
    IF n = 0 THEN 0
    ELSE Consumed(i, n - 1) + (calls[i][n].to - calls[i][n].from)

\* Every call of next consumed at least one walker result or found the
\* walker exhausted, and all calls together consumed no more results than
\* the walker has.
CallsConsumeWithinWalk ==
    \A i \in Instances :
        /\ \A k \in 1..Len(calls[i]) :
              LET c == calls[i][k]
              IN  /\ c.from <= c.to
                  /\ c.to <= Len(results)
                  /\ c.to > c.from \/ (c.done /\ c.from = Len(results))
        /\ Consumed(i, Len(calls[i])) <= Len(results)

ReturnedNone(i) == \E k \in 1..Len(calls[i]) : ~calls[i][k].ret.some

\* C14: every call of next ends after consuming at least one walker result
\* or finding the walker exhausted, the calls never consume more than the
\* walker produces, and an iterator called more often than the walker has
\* results has returned none.
C14_Terminates ==
    /\ CallsConsumeWithinWalk
    /\ \A i \in Instances : Len(calls[i]) > Len(results) => ReturnedNone(i)

\* Every result of the longest walk matched: one call each yielded them,
\* and the call after the last one returned none.
C14_Witness ==
    \E i \in Instances :
        /\ Len(results) = MaxWalk
        /\ Len(calls[i]) = Len(results) + 1
        /\ \A k \in 1..Len(results) : calls[i][k].ret.some
        /\ ~calls[i][Len(calls[i])].ret.some
        /\ Consumed(i, Len(calls[i])) = Len(results)

\* One call went round its skip loop for every result of the longest walk
\* before it found the walker exhausted.
C14_WitnessSkipLoop ==
    \E i \in Instances : \E k \in 1..Len(calls[i]) :
        /\ Len(results) = MaxWalk
        /\ calls[i][k].from = 0
        /\ calls[i][k].to = Len(results)
        /\ calls[i][k].done

====
